---- MODULE Spec2Model ----
(***************************************************************************)
(* The cage puzzle solver: the 24 cube rotations (coordinates.rs), the     *)
(* 27-bit occupancy mask and its transforms, the two base pieces and the   *)
(* candidate set, Cage::add, Cage::canonicalize and the work-list search   *)
(* of main.rs, modelled as one state machine that follows main().          *)
(***************************************************************************)
EXTENDS Integers, Sequences, FiniteSets, TLC

VARIABLES
    pc,                    \* position of main(): which loop or call runs next
    i, j, k,               \* iterations done by the three loops of ALL_ROTATIONS
    x, y, z,               \* the loop-carried matrices x, y, z of ALL_ROTATIONS
    all,                   \* the HashSet<Rotation> `all`
    ALL_ROTATIONS,         \* the Vec<Rotation> collected from `all`
    all_pieces,            \* the HashSet<Hitmap> Search.all_pieces
    all_pieces_iter,       \* the order in which iterating all_pieces yields it
    fringe,                \* the work list of Search::search
    canonical_end_states,  \* the result set of Search::search
    printed                \* what main() printed: one coordinate list per piece

vars == <<pc, i, j, k, x, y, z, all, ALL_ROTATIONS, all_pieces, all_pieces_iter,
          fringe, canonical_end_states, printed>>

(***************************************************************************)
(* Bounds of the model: how many of the possible hash-set iteration orders *)
(* are explored for ALL_ROTATIONS and for Search.all_pieces.               *)
(***************************************************************************)
NumRotationOrders == 2

NumPieceOrders == 2

(***************************************************************************)
(* Program constants.                                                      *)
(***************************************************************************)
\* `for _ in 0..4`: each of the three loops of ALL_ROTATIONS runs 4 times.
QuarterTurns == 4

\* The cells of the cube have indices 0..26 (coordinates in -1..=1).
NumCells == 27

(***************************************************************************)
(* coordinates.rs: Coordinate and Rotation.                                *)
(***************************************************************************)
Coordinate(cx, cy, cz) == [x |-> cx, y |-> cy, z |-> cz]

\* Coordinate::shift
CoordShift(self, shift) ==
    [x |-> self.x + shift.x, y |-> self.y + shift.y, z |-> self.z + shift.z]

\* Rotation::empty: the identity matrix
empty == << <<1, 0, 0>>, <<0, 1, 0>>, <<0, 0, 1>> >>

x90 == << <<1, 0, 0>>, <<0, 0, -1>>, <<0, 1, 0>> >>

y90 == << <<0, 0, 1>>, <<0, 1, 0>>, <<-1, 0, 0>> >>

z90Reflect == << <<0, 1, 0>>, <<1, 0, 0>>, <<0, 0, 1>> >>

z90 == << <<0, -1, 0>>, <<1, 0, 0>>, <<0, 0, 1>> >>

\* Rotation::multiply: the matrix product self * o
multiply(self, o) ==
    <<<<self[1][1] * o[1][1] + self[1][2] * o[2][1] + self[1][3] * o[3][1],
         self[1][1] * o[1][2] + self[1][2] * o[2][2] + self[1][3] * o[3][2],
         self[1][1] * o[1][3] + self[1][2] * o[2][3] + self[1][3] * o[3][3]>>,
       <<self[2][1] * o[1][1] + self[2][2] * o[2][1] + self[2][3] * o[3][1],
         self[2][1] * o[1][2] + self[2][2] * o[2][2] + self[2][3] * o[3][2],
         self[2][1] * o[1][3] + self[2][2] * o[2][3] + self[2][3] * o[3][3]>>,
       <<self[3][1] * o[1][1] + self[3][2] * o[2][1] + self[3][3] * o[3][1],
         self[3][1] * o[1][2] + self[3][2] * o[2][2] + self[3][3] * o[3][2],
         self[3][1] * o[1][3] + self[3][2] * o[2][3] + self[3][3] * o[3][3]>>>>

\* Rotation::rotate: the matrix-vector product
RotationRotate(self, coord) ==
    [x |-> self[1][1] * coord.x + self[1][2] * coord.y + self[1][3] * coord.z,
     y |-> self[2][1] * coord.x + self[2][2] * coord.y + self[2][3] * coord.z,
     z |-> self[3][1] * coord.x + self[3][2] * coord.y + self[3][3] * coord.z]

(***************************************************************************)
(* main.rs: Hitmap.  A Hitmap(i32) is modelled by the set of the positions *)
(* of its set bits (only bits 0..26 are ever set, so the i32 is never      *)
(* negative): `a | b` is the union, `a & b` the intersection, `1 << index` *)
(* the set {index} and Hitmap(0) the empty set.  HitmapValue is the i32    *)
(* itself, which the derived Ord compares.                                 *)
(***************************************************************************)
\* struct Hitmap(i32), with only bits 0..26 ever set
Hitmap == SUBSET (0..(NumCells - 1))

\* The i32 whose set bits are the positions lo..hi of h
RECURSIVE ValueOfBits(_, _, _)
ValueOfBits(h, lo, hi) ==
    IF lo = hi THEN (IF lo \in h THEN 2 ^ lo ELSE 0)
    ELSE ValueOfBits(h, lo, (lo + hi) \div 2) + ValueOfBits(h, ((lo + hi) \div 2) + 1, hi)

\* Hitmap.0
HitmapValue(h) == ValueOfBits(h, 0, NumCells - 1)

\* The derived Ord of Hitmap, the order of the i32 values: of two different
\* non-negative values the greater is the one holding the highest bit they
\* differ in.
Less(a, b) == \E n \in b \ a : \A m \in a \ b : m < n

Leq(a, b) == a = b \/ Less(a, b)

\* Hitmap::coordinate_to_index; the three assert! lines abort the program,
\* here the CASE has no arm for a coordinate outside the cube and TLC stops.
coordinate_to_index(coord) ==
    CASE /\ coord.x \in {-1, 0, 1}
         /\ coord.y \in {-1, 0, 1}
         /\ coord.z \in {-1, 0, 1} ->
            coord.x + 1 + 3 * (coord.y + 1) + 9 * (coord.z + 1)

\* Hitmap::add: Hitmap(self.0 | (1 << index))
HitmapAdd(self, coord) == self \cup {coordinate_to_index(coord)}

\* Hitmap::from_coordinates: hitmap.add(coord) for every coord from Hitmap(0),
\* which ORs in the bit of every coordinate of the list
from_coordinates(coords) ==
    UNION {HitmapAdd({}, coords[n]) : n \in 1..Len(coords)}

\* Hitmap::empty
HitmapEmpty == from_coordinates(<<>>)

\* The 27 coordinates in the order of the loops of Hitmap::coordinates:
\* x outermost, z innermost.
CubeCoordinates ==
    [n \in 1..NumCells |->
        Coordinate(((n - 1) \div 9) - 1, (((n - 1) \div 3) % 3) - 1, ((n - 1) % 3) - 1)]

\* coordinate_to_index of each of the 27 coordinates
CubeIndex == [n \in 1..NumCells |-> coordinate_to_index(CubeCoordinates[n])]

\* Hitmap::coordinates: the coordinates whose bit is set,
\* `self.0 & (1 << index) != 0`, in the order of the loops
coordinates(self) ==
    LET hit == SelectSeq([n \in 1..NumCells |-> n], LAMBDA n : CubeIndex[n] \in self)
    IN  [m \in 1..Len(hit) |-> CubeCoordinates[hit[m]]]

\* The coordinate that Hitmap::coordinates yields for a set bit
CoordinateOfIndex ==
    [index \in 0..(NumCells - 1) |->
        CubeCoordinates[CHOOSE n \in 1..NumCells : CubeIndex[n] = index]]

\* The bits of the coordinates of the set bits of self rotated by each matrix
\* of `rotations`
RotatedBits(self, rotations) ==
    {coordinate_to_index(RotationRotate(rotation, CoordinateOfIndex[index])) :
        index \in self, rotation \in rotations}

\* Hitmap::rotate: the bits of the rotated coordinates of the set bits, ORed
\* into an empty hitmap
HitmapRotate(self, rotation) == RotatedBits(self, {rotation})

\* Hitmap::shift
HitmapShift(self, shift) ==
    LET coords == coordinates(self)
    IN  from_coordinates([n \in 1..Len(coords) |-> CoordShift(coords[n], shift)])

(***************************************************************************)
(* main.rs: HitmapBuilder.                                                 *)
(***************************************************************************)
\* HitmapBuilder::teleport
teleport(self, coordinate) ==
    [hitmap |-> HitmapAdd(self.hitmap, coordinate), coordinate |-> coordinate]

\* HitmapBuilder::new
BuilderNew(coordinate) ==
    teleport([hitmap |-> HitmapEmpty, coordinate |-> coordinate], coordinate)

\* HitmapBuilder::shift
BuilderShift(self, amount) == teleport(self, CoordShift(self.coordinate, amount))

(***************************************************************************)
(* Hash-set iteration.  A HashSet yields its elements in an order the code *)
(* does not fix.  The model lists the elements by a key and explores the   *)
(* first `count` of the reorderings below as possible iteration orders.    *)
(***************************************************************************)
\* Where reordering t of a listing of `size` elements puts the element that
\* has `rank` elements before it: even t shifts the ascending listing left by
\* 5 * (t / 2), odd t reverses that.
Position(rank, size, t) ==
    IF t % 2 = 0 THEN (rank + size - ((5 * (t \div 2)) % size)) % size
    ELSE size - 1 - ((rank + size - ((5 * (t \div 2)) % size)) % size)

\* Reordering t of the elements of S, where rank[e] is the number of
\* elements of S that come before e in ascending order
Listing(S, rank, t) ==
    [n \in 1..Cardinality(S) |->
        CHOOSE e \in S : Position(rank[e], Cardinality(S), t) = n - 1]

IterationOrders(S, rank, count) == {Listing(S, rank, t) : t \in 0..(count - 1)}

\* The key that orders the matrices: the 9 entries as base-3 digits
RotationKey(r) ==
    (r[1][1] + 1) + 3 * (r[1][2] + 1) + 9 * (r[1][3] + 1)
    + 27 * (r[2][1] + 1) + 81 * (r[2][2] + 1) + 243 * (r[2][3] + 1)
    + 729 * (r[3][1] + 1) + 2187 * (r[3][2] + 1) + 6561 * (r[3][3] + 1)

RotationBefore(a, b) == RotationKey(a) < RotationKey(b)

\* The rank of each matrix of S in the order of the keys
RotationRank(S) == [e \in S |-> Cardinality({o \in S : RotationBefore(o, e)})]

\* The rank of each Hitmap of S in the order of the i32 values
HitmapRank(S) == [e \in S |-> Cardinality({o \in S : Less(o, e)})]

(***************************************************************************)
(* main.rs: Cage.                                                          *)
(***************************************************************************)
\* struct Cage { hitmap: Hitmap, pieces: Vec<Hitmap> }
Cage == [hitmap : Hitmap, pieces : Seq(Hitmap)]

\* Cage::new
CageNew == [hitmap |-> HitmapEmpty, pieces |-> <<>>]

\* Vec::sort on a Vec<Hitmap>: ascending by the i32 value, equal elements in
\* the order they had.  SortRank is the number of elements that come before
\* element m in the sorted Vec.
SortRank(s, m) ==
    Cardinality({l \in 1..Len(s) : Less(s[l], s[m]) \/ (s[l] = s[m] /\ l < m)})

Sort(s) == [n \in 1..Len(s) |-> s[CHOOSE m \in 1..Len(s) : SortRank(s, m) = n - 1]]

PieceDoesNotFit == [tag |-> "Err"]

Ok(cage) == [tag |-> "Ok", cage |-> cage]

\* Cage::add with the overlap test comparing the masks for equality
AddEqualityTest(self, piece) ==
    IF self.hitmap = piece THEN PieceDoesNotFit
    ELSE Ok([hitmap |-> self.hitmap \cup piece,
             pieces |-> Sort(Append(self.pieces, piece))])

\* Cage::add
Add(self, piece) ==
    IF (self.hitmap \cap piece) # {} THEN PieceDoesNotFit
    ELSE Ok([hitmap |-> self.hitmap \cup piece,
             pieces |-> Sort(Append(self.pieces, piece))])

RotatePieces(pieces, rotation) ==
    [n \in 1..Len(pieces) |-> HitmapRotate(pieces[n], rotation)]

\* The loop body of Cage::canonicalize with the tie test dropped: a rotation
\* giving an equal hitmap replaces the representative.
CanonStepTiesReplace(canon_cage, self, rotation) ==
    LET body == [canon \in Cage, new_hitmap \in Hitmap |->
                    IF Leq(new_hitmap, canon.hitmap)
                    THEN [hitmap |-> new_hitmap,
                          pieces |-> RotatePieces(self.pieces, rotation)]
                    ELSE canon]
    IN  body[canon_cage, HitmapRotate(self.hitmap, rotation)]

\* The loop body of Cage::canonicalize with `canon_cage.hitmap = new_hitmap`
\* left out.
CanonStepKeepsHitmap(canon_cage, self, rotation) ==
    LET body == [canon \in Cage, new_hitmap \in Hitmap |->
                    IF Less(new_hitmap, canon.hitmap)
                    THEN [hitmap |-> canon.hitmap,
                          pieces |-> RotatePieces(self.pieces, rotation)]
                    ELSE canon]
    IN  body[canon_cage, HitmapRotate(self.hitmap, rotation)]

\* The loop body of Cage::canonicalize for one rotation: the value of
\* canon_cage after it, as a function of its value before it and of
\* new_hitmap
CanonStep(canon_cage, self, rotation) ==
    LET body == [canon \in Cage, new_hitmap \in Hitmap |->
                    IF Leq(new_hitmap, canon.hitmap)
                    THEN IF new_hitmap = canon.hitmap /\ Leq(canon.hitmap, new_hitmap)
                         THEN canon
                         ELSE [hitmap |-> new_hitmap,
                               pieces |-> RotatePieces(self.pieces, rotation)]
                    ELSE canon]
    IN  body[canon_cage, HitmapRotate(self.hitmap, rotation)]

\* Cage::canonicalize over a given listing of the rotations: canon_cage[n] is
\* the value of canon_cage after n iterations of `for rotation in ...`
CanonicalizeOver(self, rotations) ==
    LET canon_cage[n \in 0..Len(rotations)] ==
            IF n = 0 THEN self ELSE CanonStep(canon_cage[n - 1], self, rotations[n])
    IN  canon_cage[Len(rotations)]

\* Cage::canonicalize
canonicalize(self) == CanonicalizeOver(self, ALL_ROTATIONS)

(***************************************************************************)
(* main.rs: Search::new.                                                   *)
(***************************************************************************)
UnitX == Coordinate(1, 0, 0)

UnitY == Coordinate(0, 1, 0)

UnitZ == Coordinate(0, 0, 1)

corner == Coordinate(-1, -1, -1)

piece1 ==
    LET b0 == BuilderNew(corner)
        b1 == BuilderShift(b0, UnitX)
        b2 == BuilderShift(b1, UnitX)
        b3 == BuilderShift(b2, UnitZ)
        b4 == teleport(b3, corner)
        b5 == BuilderShift(b4, UnitZ)
        b6 == teleport(b5, corner)
        b7 == BuilderShift(b6, UnitY)
        b8 == BuilderShift(b7, UnitY)
    IN  b8.hitmap

piece2 == HitmapShift(piece1, UnitZ)

\* The candidate set with the insert of piece2's rotations left out
CandidatePiecesOnlyPiece1(rotations) ==
    {HitmapRotate(piece1, rotations[n]) : n \in 1..Len(rotations)}

\* The set built by the loop of Search::new
CandidatePieces(rotations) ==
    {HitmapRotate(piece1, rotations[n]) : n \in 1..Len(rotations)}
    \cup {HitmapRotate(piece2, rotations[n]) : n \in 1..Len(rotations)}

(***************************************************************************)
(* main.rs: Search::search.                                                *)
(***************************************************************************)
\* is_end_state with the clearing of the flag left out
IsEndStateFlagStuck(cage, pieces) == TRUE

\* is_end_state after `for piece in &self.all_pieces`: no add returned Ok
IsEndState(cage, pieces) == \A n \in 1..Len(pieces) : Add(cage, pieces[n]).tag = "Err"

\* The cages pushed by `for piece in &self.all_pieces` over pieces[lo..hi], in
\* the order of the loop: those of the first half of the range, then those of
\* the second half
RECURSIVE Pushed(_, _, _, _)
Pushed(cage, pieces, lo, hi) ==
    IF lo > hi THEN <<>>
    ELSE IF lo = hi
         THEN IF Add(cage, pieces[lo]).tag = "Ok" THEN <<Add(cage, pieces[lo]).cage>>
              ELSE <<>>
         ELSE Pushed(cage, pieces, lo, (lo + hi) \div 2)
              \o Pushed(cage, pieces, ((lo + hi) \div 2) + 1, hi)

\* The piece loop for one popped cage: the flag and the cages pushed
Expand(cage, pieces) ==
    [is_end_state |-> IsEndState(cage, pieces), pushed |-> Pushed(cage, pieces, 1, Len(pieces))]

\* fringe.pop() that leaves the popped cage on the work list
RestKeepsTop(work) == work

\* What fringe.pop() leaves on the work list
Rest(work) == SubSeq(work, 1, Len(work) - 1)

Top(work) == work[Len(work)]

(***************************************************************************)
(* The state machine.                                                      *)
(***************************************************************************)
Init ==
    /\ pc = "x_loop"
    /\ i = 0 /\ j = 0 /\ k = 0
    /\ x = empty /\ y = empty /\ z = empty
    /\ all = {}
    /\ ALL_ROTATIONS = <<>>
    /\ all_pieces = {}
    /\ all_pieces_iter = <<>>
    /\ fringe = <<>>
    /\ canonical_end_states = {}
    /\ printed = {}

\* ALL_ROTATIONS, outer loop head: `for _ in 0..4 { x = x.multiply(x90); y = empty`
XLoop ==
    /\ pc = "x_loop"
    /\ IF i < QuarterTurns
       THEN /\ x' = multiply(x, x90)
            /\ y' = empty
            /\ i' = i + 1
            /\ j' = 0
            /\ pc' = "y_loop"
       ELSE /\ pc' = "collect"
            /\ UNCHANGED <<x, y, i, j>>
    /\ UNCHANGED <<k, z, all, ALL_ROTATIONS, all_pieces, all_pieces_iter, fringe,
                   canonical_end_states, printed>>

\* middle loop head: `for _ in 0..4 { y = y.multiply(y90); z = empty`
YLoop ==
    /\ pc = "y_loop"
    /\ IF j < QuarterTurns
       THEN /\ y' = multiply(y, y90)
            /\ z' = empty
            /\ j' = j + 1
            /\ k' = 0
            /\ pc' = "z_loop"
       ELSE /\ pc' = "x_loop"
            /\ UNCHANGED <<y, z, j, k>>
    /\ UNCHANGED <<i, x, all, ALL_ROTATIONS, all_pieces, all_pieces_iter, fringe,
                   canonical_end_states, printed>>

\* inner loop: `z = z.multiply(z90); all.insert(x.multiply(&y).multiply(&z))`
ZLoop ==
    /\ pc = "z_loop"
    /\ IF k < QuarterTurns
       THEN /\ z' = multiply(z, z90)
            /\ all' = all \cup {multiply(multiply(x, y), z')}
            /\ k' = k + 1
            /\ pc' = pc
       ELSE /\ pc' = "y_loop"
            /\ UNCHANGED <<z, all, k>>
    /\ UNCHANGED <<i, j, x, y, ALL_ROTATIONS, all_pieces, all_pieces_iter, fringe,
                   canonical_end_states, printed>>

\* `all.into_iter().collect()`: the Vec takes the set's iteration order
Collect ==
    /\ pc = "collect"
    /\ ALL_ROTATIONS' \in IterationOrders(all, RotationRank(all), NumRotationOrders)
    /\ pc' = "new"
    /\ UNCHANGED <<i, j, k, x, y, z, all, all_pieces, all_pieces_iter, fringe,
                   canonical_end_states, printed>>

\* Search::new: the candidate set, and the order its iteration will yield
SearchNew ==
    /\ pc = "new"
    /\ all_pieces' = CandidatePieces(ALL_ROTATIONS)
    /\ all_pieces_iter' \in IterationOrders(all_pieces', HitmapRank(all_pieces'), NumPieceOrders)
    /\ pc' = "search"
    /\ UNCHANGED <<i, j, k, x, y, z, all, ALL_ROTATIONS, fringe,
                   canonical_end_states, printed>>

\* Search::search, before the loop
SearchStart ==
    /\ pc = "search"
    /\ fringe' = <<CageNew>>
    /\ canonical_end_states' = {}
    /\ pc' = "loop"
    /\ UNCHANGED <<i, j, k, x, y, z, all, ALL_ROTATIONS, all_pieces, all_pieces_iter, printed>>

\* The result set after the body of the loop ran for the popped cage
EndStatesAfter(end_states, cage, e) ==
    IF e.is_end_state THEN end_states \cup {canonicalize(cage)} ELSE end_states

\* One iteration of the loop of Search::search with a cage popped
SearchLoop ==
    /\ pc = "loop"
    /\ fringe # <<>>
    /\ fringe' = Rest(fringe) \o Expand(Top(fringe), all_pieces_iter).pushed
    /\ canonical_end_states' =
           EndStatesAfter(canonical_end_states, Top(fringe), Expand(Top(fringe), all_pieces_iter))
    /\ pc' = pc
    /\ UNCHANGED <<i, j, k, x, y, z, all, ALL_ROTATIONS, all_pieces, all_pieces_iter, printed>>

\* `None => break` and the return of canonical_end_states
SearchBreak ==
    /\ pc = "loop"
    /\ fringe = <<>>
    /\ pc' = "main"
    /\ UNCHANGED <<i, j, k, x, y, z, all, ALL_ROTATIONS, all_pieces, all_pieces_iter, fringe,
                   canonical_end_states, printed>>

\* main(): print the coordinates of the pieces of every 3-piece solution
Main ==
    /\ pc = "main"
    /\ printed' = {[n \in 1..Len(solution.pieces) |-> coordinates(solution.pieces[n])] :
                      solution \in {s \in canonical_end_states : Len(s.pieces) = 3}}
    /\ pc' = "exit"
    /\ UNCHANGED <<i, j, k, x, y, z, all, ALL_ROTATIONS, all_pieces, all_pieces_iter, fringe,
                   canonical_end_states>>

Next ==
    \/ XLoop
    \/ YLoop
    \/ ZLoop
    \/ Collect
    \/ SearchNew
    \/ SearchStart
    \/ SearchLoop
    \/ SearchBreak
    \/ Main

Spec == Init /\ [][Next]_vars

\* main() runs on one thread with nothing to wait for: a step that can be
\* taken is taken.
FairSpec == Spec /\ WF_vars(Next)

(***************************************************************************)
(* Definitions used to state the properties.                               *)
(***************************************************************************)
Returned == pc \in {"main", "exit"}

\* A cage is on top of the work list: the next iteration pops and expands it
Popping == pc = "loop" /\ fringe # <<>>

PieceSet(cage) == {cage.pieces[n] : n \in 1..Len(cage.pieces)}

CandidateSet == all_pieces

SharesBit(a, b) == \E bit \in 0..(NumCells - 1) : bit \in a /\ bit \in b

Det(r) ==
    r[1][1] * (r[2][2] * r[3][3] - r[2][3] * r[3][2])
    - r[1][2] * (r[2][1] * r[3][3] - r[2][3] * r[3][1])
    + r[1][3] * (r[2][1] * r[3][2] - r[2][2] * r[3][1])

Transpose(r) == [row \in 1..3 |-> [col \in 1..3 |-> r[col][row]]]

Orthonormal(r) == multiply(r, Transpose(r)) = empty

IntegerMatrix(r) ==
    /\ DOMAIN r = 1..3
    /\ \A row \in 1..3 : DOMAIN r[row] = 1..3 /\ \A col \in 1..3 : r[row][col] \in Int

\* The cage built from the empty cage by adding the rotated pieces of `cage`
RECURSIVE AddAll(_, _)
AddAll(cage, pieces) ==
    IF pieces = <<>> THEN cage
    ELSE AddAll(Add(cage, Head(pieces)).cage, Tail(pieces))

RotatedCage(cage, rotation) == AddAll(CageNew, RotatePieces(cage.pieces, rotation))

\* The terminal cages reachable from `cages` by adding candidate pieces
RECURSIVE TerminalsFrom(_, _)
TerminalsFrom(cages, pieces) ==
    IF cages = {} THEN {}
    ELSE {c \in cages : \A p \in pieces : Add(c, p).tag = "Err"}
         \cup TerminalsFrom({Add(c, p).cage : <<c, p>> \in
                                 {cp \in cages \X pieces : Add(cp[1], cp[2]).tag = "Ok"}},
                            pieces)

\* What Search::search returns when ALL_ROTATIONS holds `rotations`
ResultOver(rotations) ==
    {CanonicalizeOver(c, rotations) : c \in TerminalsFrom({CageNew}, CandidateSet)}

(***************************************************************************)
(* C1.  When the search has returned, no two distinct entries of the       *)
(* result set are rotated copies of one packing: there is no rotation that *)
(* maps the set of pieces of one onto the set of pieces of the other.      *)
(***************************************************************************)
C1_RotatedCopiesAreOneEntry ==
    Returned =>
        \A c1, c2 \in canonical_end_states :
            c1 # c2 =>
                ~ \E R \in all :
                    PieceSet(c2) = {HitmapRotate(piece, R) : piece \in PieceSet(c1)}

(***************************************************************************)
(* C2.  A cage and the cage built from its rotated pieces canonicalize to  *)
(* the same cage, for every cage the search pops and every rotation.       *)
(***************************************************************************)
C2_RotationsShareRepresentative ==
    Popping =>
        \A R \in all :
            canonicalize(Top(fringe)) = canonicalize(RotatedCage(Top(fringe), R))

(***************************************************************************)
(* C3.  Every cage of the returned set is terminal: every candidate piece  *)
(* shares a bit with its stored hitmap, and adding it gives                *)
(* PieceDoesNotFit.                                                        *)
(***************************************************************************)
C3_ResultsAreTerminal ==
    Returned =>
        \A cage \in canonical_end_states :
            \A piece \in CandidateSet :
                SharesBit(piece, cage.hitmap) /\ Add(cage, piece) = PieceDoesNotFit

C3_Witness ==
    /\ Returned
    /\ \E cage \in canonical_end_states : Len(cage.pieces) = 2
    /\ \E cage \in canonical_end_states : Len(cage.pieces) = 3

(***************************************************************************)
(* C4.  The returned set holds a packing of exactly three pieces that are  *)
(* pairwise disjoint, each a rotation of one of the two base shapes, each  *)
(* of 7 cells of the cube; main() prints 7 distinct in-cube coordinates    *)
(* for each piece of such a packing.                                       *)
(***************************************************************************)
IsBaseShape(piece) ==
    \E R \in all : piece = HitmapRotate(piece1, R) \/ piece = HitmapRotate(piece2, R)

ThreePiecePacking(cage) ==
    /\ Len(cage.pieces) = 3
    /\ \A m, n \in 1..3 : m # n => ~ SharesBit(cage.pieces[m], cage.pieces[n])
    /\ \A n \in 1..3 :
        /\ IsBaseShape(cage.pieces[n])
        /\ Cardinality(cage.pieces[n]) = 7
        /\ cage.pieces[n] \subseteq 0..(NumCells - 1)

SevenCubeCoordinates(list) ==
    /\ Len(list) = 7
    /\ Cardinality({list[n] : n \in 1..Len(list)}) = 7
    /\ \A n \in 1..Len(list) :
        list[n].x \in {-1, 0, 1} /\ list[n].y \in {-1, 0, 1} /\ list[n].z \in {-1, 0, 1}

C4_FindsThreePiecePacking ==
    /\ Returned => \E cage \in canonical_end_states : ThreePiecePacking(cage)
    /\ pc = "exit" =>
        /\ printed # {}
        /\ \A solution \in printed :
            Len(solution) = 3 /\ \A n \in 1..3 : SevenCubeCoordinates(solution[n])

C4_Witness ==
    /\ pc = "exit"
    /\ \E cage \in canonical_end_states : ThreePiecePacking(cage)
    /\ printed # {}

(***************************************************************************)
(* C5.  For the cage about to be expanded and every candidate piece, add   *)
(* gives PieceDoesNotFit, and no cage, exactly when the piece shares a bit *)
(* with the cage's hitmap; otherwise it gives a cage whose hitmap holds    *)
(* exactly the bits of either mask and whose pieces are the old pieces and *)
(* the new one, in ascending order.                                        *)
(***************************************************************************)
Ascending(pieces) ==
    \A n \in 1..(Len(pieces) - 1) : HitmapValue(pieces[n]) <= HitmapValue(pieces[n + 1])

Occurrences(pieces, piece) == Cardinality({n \in 1..Len(pieces) : pieces[n] = piece})

AddContract(cage, piece) ==
    LET r == Add(cage, piece)
    IN  IF SharesBit(cage.hitmap, piece)
        THEN r = PieceDoesNotFit /\ DOMAIN r = {"tag"}
        ELSE /\ r.tag = "Ok"
             /\ \A bit \in 0..31 :
                    bit \in r.cage.hitmap <=> (bit \in cage.hitmap \/ bit \in piece)
             /\ Len(r.cage.pieces) = Len(cage.pieces) + 1
             /\ Ascending(r.cage.pieces)
             /\ \A q \in PieceSet(cage) \cup {piece} :
                    Occurrences(r.cage.pieces, q) =
                        Occurrences(cage.pieces, q) + (IF q = piece THEN 1 ELSE 0)

C5_AddFailsIffOverlap ==
    Popping => \A piece \in CandidateSet : AddContract(Top(fringe), piece)

C5_Witness ==
    /\ Popping
    /\ Len(Top(fringe).pieces) = 1
    /\ \E piece \in CandidateSet : Add(Top(fringe), piece) = PieceDoesNotFit
    /\ \E piece \in CandidateSet :
        /\ Add(Top(fringe), piece).tag = "Ok"
        /\ Add(Top(fringe), piece).cage.pieces[1] = piece

(***************************************************************************)
(* C6.  For the cage about to be expanded, canonicalize gives the hitmap   *)
(* of least i32 value among the 24 rotated hitmaps, and the pieces rotated *)
(* one by one by a single rotation that maps the hitmap onto it, so that   *)
(* the pieces together cover exactly the returned hitmap; a rotation whose *)
(* hitmap equals that of the current representative does not replace it,  *)
(* so a cage whose hitmap is already the least is returned unchanged.      *)
(***************************************************************************)
LeastRotatedValue(cage) ==
    LET values == {HitmapValue(HitmapRotate(cage.hitmap, R)) : R \in all}
    IN  CHOOSE least \in values : \A v \in values : least <= v

CanonicalizeContract(cage, canon) ==
    /\ HitmapValue(canon.hitmap) = LeastRotatedValue(cage)
    /\ \E R \in all :
        /\ HitmapRotate(cage.hitmap, R) = canon.hitmap
        /\ canon.pieces = RotatePieces(cage.pieces, R)
    /\ UNION PieceSet(canon) = canon.hitmap
    /\ \A R \in all :
        /\ HitmapRotate(cage.hitmap, R) = cage.hitmap => CanonStep(cage, cage, R) = cage
        /\ HitmapRotate(cage.hitmap, R) = canon.hitmap => CanonStep(canon, cage, R) = canon
    /\ HitmapValue(cage.hitmap) = LeastRotatedValue(cage) => canon = cage

C6_CanonicalizeIsLeastRotation ==
    Popping => CanonicalizeContract(Top(fringe), canonicalize(Top(fringe)))

\* a cage with a symmetric hitmap that is not the least: some rotation other
\* than the one chosen reaches the least hitmap with other pieces
C6_Witness ==
    /\ Popping
    /\ canonicalize(Top(fringe)) # Top(fringe)
    /\ \E R \in all :
        /\ HitmapRotate(Top(fringe).hitmap, R) = canonicalize(Top(fringe)).hitmap
        /\ RotatePieces(Top(fringe).pieces, R) # canonicalize(Top(fringe)).pieces

(***************************************************************************)
(* C7.  Once the three loops have run their 64 iterations, `all` holds     *)
(* exactly 24 matrices, each an integer matrix that is orthonormal with    *)
(* determinant +1, the product of any two of them is one of them, and      *)
(* ALL_ROTATIONS lists each of them once.                                  *)
(***************************************************************************)
C7_RotationGroup ==
    /\ pc \in {"collect", "new", "search"} =>
        /\ i = QuarterTurns /\ j = QuarterTurns /\ k = QuarterTurns
        /\ Cardinality(all) = 24
        /\ \A r \in all : IntegerMatrix(r) /\ Orthonormal(r) /\ Det(r) = 1
        /\ \A a, b \in all : multiply(a, b) \in all
    /\ pc \in {"new", "search"} =>
        /\ Len(ALL_ROTATIONS) = 24
        /\ {ALL_ROTATIONS[n] : n \in 1..Len(ALL_ROTATIONS)} = all

C7_Witness ==
    /\ pc = "new"
    /\ Len(ALL_ROTATIONS) = 24
    /\ \E a, b \in all : multiply(a, b) # multiply(b, a)

(***************************************************************************)
(* C8.  Canonicalizing the canonical form of the cage about to be expanded *)
(* gives that canonical form again: the same hitmap and the same pieces in *)
(* the same order.                                                         *)
(***************************************************************************)
C8_CanonicalizeIdempotent ==
    Popping =>
        canonicalize(canonicalize(Top(fringe))) = canonicalize(Top(fringe))

C8_Witness ==
    /\ Popping
    /\ Len(Top(fringe).pieces) = 3
    /\ canonicalize(Top(fringe)).hitmap # Top(fringe).hitmap
    /\ canonicalize(canonicalize(Top(fringe))) = canonicalize(Top(fringe))

(***************************************************************************)
(* C9.  The returned set is the same in every run: whatever order the      *)
(* candidate pieces and the rotations were iterated in, it is the set      *)
(* that the search returns with the rotations in any of the orders.        *)
(***************************************************************************)
C9_SameResultForEveryOrder ==
    Returned =>
        \A rotations \in IterationOrders(all, RotationRank(all), NumRotationOrders) :
            canonical_end_states = ResultOver(rotations)

(***************************************************************************)
(* C10.  The search terminates: once the loop is entered the work list     *)
(* eventually runs empty and the search returns, and every cage an         *)
(* iteration pushes has strictly more occupied cells than the cage popped, *)
(* and at most 27.                                                         *)
(***************************************************************************)
PushedCagesGrow ==
    Popping =>
        \A n \in Len(fringe)..Len(fringe') :
            /\ Cardinality(fringe'[n].hitmap) > Cardinality(Top(fringe).hitmap)
            /\ Cardinality(fringe'[n].hitmap) <= NumCells

C10_SearchTerminates ==
    /\ (pc = "loop") ~> (pc = "main" /\ fringe = <<>>)
    /\ [][PushedCagesGrow]_vars

C10_Witness ==
    /\ pc = "main"
    /\ fringe = <<>>
    /\ canonical_end_states # {}

====
